---- MODULE Spec2Model ----
(***************************************************************************)
(* A model of the GCN notebook src/GCN_torchgeometric.ipynb: the custom    *)
(* message-passing layer GraphConvolution, the two-layer classifier Net,   *)
(* and the train / evaluate cells.                                         *)
(*                                                                         *)
(* Tensors hold exact real numbers.  Every number the notebook can produce *)
(* from integer features and integer weights is a rational combination of  *)
(* square roots of square-free integers (deg.pow(-0.5) is 1/sqrt(deg)), so *)
(* a scalar is kept in the normal form                                     *)
(*      ( SUM_f num[f] * sqrt(f) ) / den ,   f square-free, den > 0,       *)
(* with gcd(den, all num[f]) = 1.  The square roots of distinct square-free*)
(* integers are linearly independent over the rationals, so two scalars    *)
(* are equal as real numbers exactly when their normal forms are equal.    *)
(* Floating-point rounding is not modelled.                                *)
(***************************************************************************)
EXTENDS Integers, Sequences, FiniteSets

\* ------------------------------------------------------------------ bounds
MaxN == 2          \* most nodes of the edge lists drawn in full
MaxE == 2          \* longest edge list drawn (besides the worked example)
MaxEpoch == 2      \* epochs run by the modelled training loop

\* ------------------------------------------------------- exact arithmetic
MaxDeg == IF MaxE + 1 < 3 THEN 3 ELSE MaxE + 1  \* no degree of a drawn graph is larger

Abs(n) == IF n < 0 THEN -n ELSE n

RECURSIVE Gcd(_, _)
Gcd(a, b) == IF b = 0 THEN Abs(a) ELSE Gcd(b, a % Abs(b))

IsPrime(p) == p >= 2 /\ \A q \in 2..(p - 1) : p % q # 0

Primes == {p \in 2..MaxDeg : IsPrime(p)}

RECURSIVE SetProd(_)
SetProd(S) == IF S = {} THEN 1 ELSE LET p == CHOOSE q \in S : TRUE IN p * SetProd(S \ {p})

\* the square-free radicands sqrt(f) that can occur
SqFree == {SetProd(P) : P \in SUBSET Primes}

\* n = SqPart(n)^2 * SqFreePart(n)
SqPart(n) == CHOOSE s \in 1..n : n % (s * s) = 0 /\ \A t \in (s + 1)..n : n % (t * t) # 0
SqFreePart(n) == n \div (SqPart(n) * SqPart(n))

RECURSIVE GcdSet(_, _)
GcdSet(S, g) == IF S = {} THEN g ELSE LET n == CHOOSE m \in S : TRUE IN GcdSet(S \ {n}, Gcd(g, n))

\* den = 0 stands for a non-finite value (inf or nan: a division by zero happened)
NonFinite == [num |-> [f \in SqFree |-> 0], den |-> 0]

Normalize(num, den) ==
    IF den = 0 THEN NonFinite
    ELSE LET g == GcdSet({num[f] : f \in SqFree}, den)
         IN  [num |-> [f \in SqFree |-> num[f] \div g], den |-> den \div g]

FromInt(n) == [num |-> [f \in SqFree |-> IF f = 1 THEN n ELSE 0], den |-> 1]
Zero == FromInt(0)

SAdd(a, b) == Normalize([f \in SqFree |-> a.num[f] * b.den + b.num[f] * a.den], a.den * b.den)

RECURSIVE SumOver(_, _)
SumOver(S, t) == IF S = {} THEN 0 ELSE LET e == CHOOSE m \in S : TRUE IN t[e] + SumOver(S \ {e}, t)

\* sqrt(f1) * sqrt(f2) = gcd(f1,f2) * sqrt(f1*f2 / gcd^2)
MulNum(a, b) ==
    LET pairs == {pr \in {f \in SqFree : a[f] # 0} \X {f \in SqFree : b[f] # 0} : TRUE}
        rad   == [pr \in pairs |-> (pr[1] * pr[2]) \div (Gcd(pr[1], pr[2]) * Gcd(pr[1], pr[2]))]
        term  == [pr \in pairs |-> a[pr[1]] * b[pr[2]] * Gcd(pr[1], pr[2])]
    IN  [f \in SqFree |-> SumOver({pr \in pairs : rad[pr] = f}, term)]

SMul(a, b) == Normalize(MulNum(a.num, b.num), a.den * b.den)

SNeg(a) == [num |-> [f \in SqFree |-> -a.num[f]], den |-> a.den]

IsFinite(a) == a.den # 0

\* d ^ (-1/2) = sqrt(f) / (s * f)   where d = s^2 * f
InvSqrt(d) ==
    IF d = 0 THEN NonFinite ELSE
    [num |-> [f \in SqFree |-> IF f = SqFreePart(d) THEN 1 ELSE 0],
     den |-> SqPart(d) * SqFreePart(d)]

\* sign of SUM_f num[f]*sqrt(f), exactly: split off the largest prime p in use,
\* num = A + sqrt(p) * B, and compare A^2 with p * B^2 when the signs differ
RECURSIVE SignNum(_)
SignNum(num) ==
    LET used == {p \in Primes : \E f \in SqFree : f % p = 0 /\ num[f] # 0}
    IN  IF used = {} THEN (IF num[1] > 0 THEN 1 ELSE IF num[1] < 0 THEN -1 ELSE 0)
        ELSE
          LET p  == CHOOSE q \in used : \A r \in used : r <= q
              A  == [f \in SqFree |-> IF f % p = 0 THEN 0 ELSE num[f]]
              B  == [f \in SqFree |-> IF f % p = 0 THEN 0 ELSE
                                      IF f * p \in SqFree THEN num[f * p] ELSE 0]
              sA == SignNum(A)
              sB == SignNum(B)
          IN  IF sB = 0 THEN sA
              ELSE IF sA = 0 \/ sA = sB THEN sB
              ELSE LET A2 == MulNum(A, A)
                       B2 == MulNum(B, B)
                   IN  sA * SignNum([f \in SqFree |-> A2[f] - p * B2[f]])

Sign(a) == SignNum(a.num)
SLess(a, b) == Sign(SAdd(a, SNeg(b))) < 0


RECURSIVE SSum(_, _)
SSum(S, t) == IF S = {} THEN Zero ELSE LET e == CHOOSE m \in S : TRUE IN SAdd(t[e], SSum(S \ {e}, t))

\* an integer matrix as a matrix of scalars
ToScalars(m) == [i \in DOMAIN m |-> [k \in DOMAIN m[i] |-> FromInt(m[i][k])]]

\* ------------------------------------------------- tensors and library calls
\* edge_index ([2, E]) is the sequence of its E columns <<source, target>>;
\* node indices are 0-based as in the notebook, matrix rows are 1-based.
Row(edge_index) == [e \in 1..Len(edge_index) |-> edge_index[e][1]]
Col(edge_index) == [e \in 1..Len(edge_index) |-> edge_index[e][2]]

\* a self-loop step that adds nothing
AddSelfLoopsNone(edge_index, num_nodes) == [out |-> edge_index, arg |-> edge_index]

\* add_remaining_self_loops: (i, i) only for the nodes that have no self-loop yet
AddRemainingSelfLoops(edge_index, num_nodes) ==
    [out |-> edge_index \o
             SelectSeq([i \in 1..num_nodes |-> <<i - 1, i - 1>>],
                       LAMBDA l : \A e \in DOMAIN edge_index : edge_index[e] # l),
     arg |-> edge_index]

\* a self-loop step that extends the caller's tensor in place
AddSelfLoopsInPlace(edge_index, num_nodes) ==
    [out |-> edge_index \o [i \in 1..num_nodes |-> <<i - 1, i - 1>>],
     arg |-> edge_index \o [i \in 1..num_nodes |-> <<i - 1, i - 1>>]]

\* add_self_loops: a new tensor, edge_index followed by (i, i) for i = 0..N-1;
\* arg is the caller's tensor after the call
AddSelfLoops(edge_index, num_nodes) ==
    [out |-> edge_index \o [i \in 1..num_nodes |-> <<i - 1, i - 1>>],
     arg |-> edge_index]

\* torch.nn.Linear(in_channels, out_channels, bias): x * weight^T + bias
Linear(lin, x) ==
    IF Len(x[1]) # lin.in_channels
    THEN [ok |-> FALSE, y |-> <<>>]
    ELSE [ok |-> TRUE,
          y  |-> [n \in 1..Len(x) |->
                   [o \in 1..lin.out_channels |->
                     LET dot == SSum(1..lin.in_channels,
                                     [i \in 1..lin.in_channels |->
                                        SMul(x[n][i], FromInt(lin.weight[o][i]))])
                     IN  IF lin.has_bias THEN SAdd(dot, FromInt(lin.bias[o])) ELSE dot]]]

\* degree(index, num_nodes): scatter_add of ones at index; an index outside
\* [0, num_nodes) is an error
Degree(index, num_nodes) ==
    IF \E e \in DOMAIN index : index[e] \notin 0..(num_nodes - 1)
    THEN [ok |-> FALSE, deg |-> <<>>]
    ELSE [ok |-> TRUE,
          deg |-> [i \in 1..num_nodes |-> Cardinality({e \in DOMAIN index : index[e] = i - 1})]]

\* deg.pow(-0.5)
DegInvSqrt(deg) == [i \in DOMAIN deg |-> InvSqrt(deg[i])]

\* v[index] (advanced indexing): negative indices count from the end, an index
\* outside [-n, n) is an error
IndexOk(v, index) == \A e \in DOMAIN index : index[e] \in (-Len(v))..(Len(v) - 1)
IndexBy(v, index) ==
    [e \in DOMAIN index |-> IF index[e] >= 0 THEN v[index[e] + 1] ELSE v[Len(v) + index[e] + 1]]

\* a message that adds the coefficient instead of scaling by it
MessageAdd(x_j, norm) == [e \in DOMAIN x_j |-> [k \in DOMAIN x_j[e] |-> SAdd(norm[e], x_j[e][k])]]

\* GraphConvolution.message: norm.view(-1, 1) * x_j
Message(x_j, norm) == [e \in DOMAIN x_j |-> [k \in DOMAIN x_j[e] |-> SMul(norm[e], x_j[e][k])]]

\* GraphConvolution.update
Update(aggr_out) == aggr_out

\* aggr = 'add': scatter-add of the messages at the target index (dim_size = N)
Aggregate(inputs, index, dim_size, width) ==
    [i \in 1..dim_size |->
       [k \in 1..width |->
          SSum({e \in DOMAIN index : index[e] = i - 1}, [e \in DOMAIN index |-> inputs[e][k]])]]

\* deg_inv_sqrt[row] * deg_inv_sqrt[col], one coefficient per edge
Norm(d, edge_index) ==
    IF ~d.ok THEN [ok |-> FALSE, norm |-> <<>>]
    ELSE IF ~IndexOk(DegInvSqrt(d.deg), Row(edge_index)) \/ ~IndexOk(DegInvSqrt(d.deg), Col(edge_index))
    THEN [ok |-> FALSE, norm |-> <<>>]
    ELSE [ok |-> TRUE,
          norm |-> [e \in DOMAIN edge_index |->
                      SMul(IndexBy(DegInvSqrt(d.deg), Row(edge_index))[e],
                           IndexBy(DegInvSqrt(d.deg), Col(edge_index))[e])]]

\* a propagate whose scatter drops the messages of out-of-range targets
PropagateUnchecked(edge_index, num_nodes, x, norm) ==
    IF \E e \in DOMAIN edge_index : edge_index[e][1] \notin 0..(num_nodes - 1)
    THEN [ok |-> FALSE, out |-> <<>>]
    ELSE [ok |-> TRUE,
          out |-> Update(Aggregate(Message(IndexBy(x, Row(edge_index)), norm),
                                   Col(edge_index), num_nodes, Len(x[1])))]

\* MessagePassing.propagate (flow = source_to_target): x_j = x[edge_index[0]],
\* messages are summed at edge_index[1]; both index by node and fail out of range
Propagate(edge_index, num_nodes, x, norm) ==
    IF \E e \in DOMAIN edge_index :
          edge_index[e][1] \notin 0..(num_nodes - 1) \/ edge_index[e][2] \notin 0..(num_nodes - 1)
    THEN [ok |-> FALSE, out |-> <<>>]
    ELSE [ok |-> TRUE,
          out |-> Update(Aggregate(Message(IndexBy(x, Row(edge_index)), norm),
                                   Col(edge_index), num_nodes, Len(x[1])))]

\* GraphConvolution.__init__
GraphConvolution(in_channels, out_channels, weight, has_bias, bias) ==
    [in_channels |-> in_channels, out_channels |-> out_channels,
     weight |-> weight, has_bias |-> has_bias, bias |-> bias]

Failure(step, caller_edge_index) ==
    [status |-> "error", error |-> step, caller_edge_index |-> caller_edge_index,
     edge_index |-> <<>>, x |-> <<>>, deg |-> <<>>, norm |-> <<>>, out |-> <<>>]

\* GraphConvolution.forward, the return: the first step that failed, or the output
ForwardReturn(asl, lin, d, norm, prop) ==
    IF ~lin.ok THEN Failure("lin", asl.arg)
    ELSE IF ~d.ok THEN Failure("degree", asl.arg)
    ELSE IF ~norm.ok THEN Failure("index", asl.arg)
    ELSE IF ~prop.ok THEN Failure("propagate", asl.arg)
    ELSE [status |-> "ok", error |-> "", caller_edge_index |-> asl.arg,
          edge_index |-> asl.out, x |-> lin.y, deg |-> d.deg, norm |-> norm.norm,
          out |-> prop.out]

\* GraphConvolution.forward, steps 4-6: propagate
ForwardPropagate(asl, N, lin, d, norm) ==
    ForwardReturn(asl, lin, d, norm, Propagate(asl.out, N, lin.y, norm.norm))

\* GraphConvolution.forward, step 3: row, col = edge_index; the normalization
ForwardNorm(asl, N, lin) ==
    ForwardPropagate(asl, N, lin, Degree(Row(asl.out), N), Norm(Degree(Row(asl.out), N), asl.out))

\* GraphConvolution.forward, step 2: x = self.lin(x)
ForwardLinear(self, x, asl) == ForwardNorm(asl, Len(x), Linear(self, x))

\* GraphConvolution.forward(x, edge_index), from step 1: add_self_loops
Forward(self, x, edge_index) == ForwardLinear(self, x, AddSelfLoops(edge_index, Len(x)))

\* ---------------------------------------------------------------- the Net
NHid == 1          \* hidden channels of the modelled Net (nhid)
NClass == 2        \* classes of the modelled dataset (dataset.num_classes)

\* dropout = 0.5
DropoutP == [num |-> 1, den |-> 2]

\* F.relu
Relu(x) == [i \in DOMAIN x |-> [k \in DOMAIN x[i] |-> IF Sign(x[i][k]) < 0 THEN Zero ELSE x[i][k]]]

\* a dropout that masks in both modes
DropoutAlways(x, p, training, mask) ==
    [i \in DOMAIN x |-> [k \in DOMAIN x[i] |->
        IF mask[i][k]
        THEN SMul(x[i][k], [num |-> FromInt(p.den).num, den |-> p.den - p.num])
        ELSE Zero]]

\* F.dropout(x, p, training): in training mode an element is kept where the
\* random mask says so and rescaled by 1/(1-p), and zeroed elsewhere; otherwise
\* x is returned as it is
Dropout(x, p, training, mask) ==
    IF training
    THEN [i \in DOMAIN x |-> [k \in DOMAIN x[i] |->
            IF mask[i][k]
            THEN SMul(x[i][k], [num |-> FromInt(p.den).num, den |-> p.den - p.num])
            ELSE Zero]]
    ELSE x

\* F.log_softmax(x, dim=1): entry k of row i is x[i][k] - log(sum_j exp(x[i][j])),
\* kept as the pair of the logit and the row it is normalised over
LogSoftmax(x) == [i \in DOMAIN x |-> [k \in DOMAIN x[i] |-> [logit |-> x[i][k], over |-> x[i]]]]

\* order of two entries of one log_softmax row (the same normaliser is subtracted)
LsmLess(a, b) == SLess(a.logit, b.logit)

\* Net.__init__
Net(conv1, conv2, dropout) ==
    [conv1 |-> conv1, conv2 |-> conv2, dropout |-> dropout, training |-> TRUE]

NetFailure(layer_name, training, d) ==
    [status |-> "error", error |-> layer_name, training |-> training,
     xin |-> d.x, in1 |-> d.edge_index, aug1 |-> <<>>, in2 |-> <<>>, aug2 |-> <<>>,
     h1 |-> <<>>, h2 |-> <<>>, h3 |-> <<>>, out |-> <<>>, data |-> d]

\* Net.forward, the return: F.log_softmax(x, dim=1), with what each step produced
NetReturn(self, d, c1, h2, h3, c2) ==
    IF c1.status # "ok"
    THEN NetFailure("conv1", self.training, [d EXCEPT !.edge_index = c1.caller_edge_index])
    ELSE IF c2.status # "ok"
    THEN NetFailure("conv2", self.training, [d EXCEPT !.edge_index = c2.caller_edge_index])
    ELSE [status |-> "ok", error |-> "", training |-> self.training,
          xin |-> d.x, in1 |-> d.edge_index, aug1 |-> c1.edge_index,
          in2 |-> c1.caller_edge_index, aug2 |-> c2.edge_index,
          h1 |-> c1.out, h2 |-> h2, h3 |-> h3, out |-> LogSoftmax(c2.out),
          data |-> [d EXCEPT !.edge_index = c2.caller_edge_index]]

\* Net.forward: x = self.conv2(x, edge_index)
NetConv2(self, d, c1, h2, h3) ==
    NetReturn(self, d, c1, h2, h3, Forward(self.conv2, h3, c1.caller_edge_index))

\* Net.forward: x = F.dropout(x, self.dropout, training=self.training)
NetDropout(self, d, mask, c1, h2) ==
    NetConv2(self, d, c1, h2, Dropout(h2, self.dropout, self.training, mask))

\* Net.forward: x = F.relu(x)
NetRelu(self, d, mask, c1) ==
    IF c1.status # "ok" THEN NetReturn(self, d, c1, <<>>, <<>>, c1)
    ELSE NetDropout(self, d, mask, c1, Relu(c1.out))

\* Net.forward(data), from x = self.conv1(x, edge_index); mask is what the
\* random source yields for F.dropout
NetForward(self, d, mask) ==
    NetRelu(self, d, mask, Forward(self.conv1, ToScalars(d.x), d.edge_index))

\* the dropout masks the random source can yield for an [N, nhid] matrix
Masks(N) == [1..N -> [1..NHid -> BOOLEAN]]

\* ----------------------------------------------- training and evaluation cells
\* x[mask] / y[mask]: the rows where the boolean mask is true, in order
RECURSIVE Select(_, _, _)
Select(v, mask, i) ==
    IF i > Len(v) THEN <<>>
    ELSE (IF mask[i] THEN <<v[i]>> ELSE <<>>) \o Select(v, mask, i + 1)

MaskSum(mask) == Cardinality({i \in DOMAIN mask : mask[i]})

\* F.nll_loss(input, target): the mean of -input[n][target[n]], kept as the
\* sequence of the entries picked
NllLoss(input, target) == [picked |-> [n \in DOMAIN input |-> input[n][target[n] + 1]]]

\* tensor.max(dim=1)[1]: for each row the index of a largest entry
ArgMax(out) ==
    {p \in [DOMAIN out -> 0..(NClass - 1)] :
        \A i \in DOMAIN out : \A k \in DOMAIN out[i] : ~LsmLess(out[i][p[i] + 1], out[i][k])}

\* pred.eq(y).sum(): the count over all nodes
CorrectUnmasked(pr, y, test_mask) == Cardinality({n \in DOMAIN pr : pr[n] = y[n]})

\* pred[test_mask].eq(y[test_mask]).sum()
Correct(pr, y, test_mask) ==
    LET a == Select(pr, test_mask, 1)
        b == Select(y, test_mask, 1)
    IN  Cardinality({n \in DOMAIN a : a[n] = b[n]})

\* ------------------------------------------------------------ drawn inputs
MaxF == 2          \* widest feature matrix / most channels drawn

RECURSIVE SeqsUpTo(_, _)
SeqsUpTo(S, n) ==
    IF n = 0 THEN {<<>>}
    ELSE LET shorter == SeqsUpTo(S, n - 1)
         IN  shorter \cup {Append(s, e) : s \in {t \in shorter : Len(t) = n - 1}, e \in S}

Nodes(N) == 0..(N - 1)

\* the worked example of the notebook's formula: the path 0 - 1 - 2, both directions
ExampleEdges == <<<<0, 1>>, <<1, 0>>, <<1, 2>>, <<2, 1>>>>

ValidEdgeLists(N) == SeqsUpTo(Nodes(N) \X Nodes(N), MaxE)

\* edge lists with an index outside [0, N)
BadEdgeLists(N) ==
    {<<e>> : e \in {b \in (-1..N) \X (-1..N) : b[1] \notin Nodes(N) \/ b[2] \notin Nodes(N)}}

\* the graphs a layer is called on, [N, edge_index]: every list of up to MaxE
\* edges over up to MaxN nodes, lists with a bad index, and the worked example
ConvGraphs ==
    UNION {{<<N, el>> : el \in ValidEdgeLists(N) \cup BadEdgeLists(N)} : N \in 1..MaxN}
    \cup {<<3, ExampleEdges>>}

\* integer feature matrices [N, F]
FeatureMatrices(N, F) ==
    {[i \in 1..N |-> [k \in 1..F |-> IF (i - 1) % F = k - 1 THEN 1 ELSE 0]],
     [i \in 1..N |-> [k \in 1..F |-> i - 2 * k]]}

\* layers with integer weights [out, in], bias absent or present
Layers ==
    {GraphConvolution(fi, MaxF,
                      [o \in 1..MaxF |-> [i \in 1..fi |-> IF (o + i) % 2 = 0 THEN o + i - 1 ELSE 1 - o - i]],
                      hb, IF hb THEN [o \in 1..MaxF |-> o] ELSE <<>>) :
        fi \in 1..MaxF, hb \in BOOLEAN}

\* the parameter values a Net over nfeat features takes in the model
ParamSpace(nfeat) ==
    {Net(GraphConvolution(nfeat, NHid,
                          [o \in 1..NHid |-> [i \in 1..nfeat |-> IF (o + i) % 2 = 0 THEN s ELSE -s]],
                          TRUE, [o \in 1..NHid |-> (1 - s) \div 2]),
         GraphConvolution(NHid, NClass,
                          [c \in 1..NClass |-> [h \in 1..NHid |-> s * (c - 1)]],
                          TRUE, [c \in 1..NClass |-> IF c = 1 THEN 2 ELSE 0]),
         DropoutP) : s \in {1, -1}}

\* graphs the Net is run on: [N, edge_index]
NetGraphs ==
    {<<2, <<<<0, 1>>, <<1, 0>>>>>>, <<2, <<<<0, 1>>, <<1, 1>>>>>>, <<1, <<>>>>}

\* the graph of the train / evaluate cells: two nodes joined in both directions,
\* one of them with a self-loop stored
ScriptGraphs == {<<2, <<<<0, 1>>, <<1, 0>>, <<1, 1>>>>>>}

\* the labels drawn for N nodes
Labels(N) ==
    {[i \in 1..N |-> 0], [i \in 1..N |-> (i - 1) % NClass], [i \in 1..N |-> i % NClass]}

\* train / test splits: disjoint boolean masks over the nodes
Splits(N) ==
    {[train |-> [i \in 1..N |-> FALSE], test |-> [i \in 1..N |-> TRUE]],
     [train |-> [i \in 1..N |-> i = 1], test |-> [i \in 1..N |-> i # 1]],
     [train |-> [i \in 1..N |-> TRUE], test |-> [i \in 1..N |-> FALSE]]}

Dataset(x, edge_index, y, split) ==
    [x |-> x, edge_index |-> edge_index, y |-> y,
     train_mask |-> split.train, test_mask |-> split.test]

NoResult == [status |-> "none"]

VARIABLES
    layer, cx, cedge, res,                  \* one GraphConvolution and its caller
    data, model,                            \* the dataset and the Net
    fwd, prev,                              \* Net.forward: the last pass, the one before
    pc, epoch, grad, loss, pred, correct, acc   \* the train / evaluate cells

convVars == <<layer, cx, cedge, res>>
netVars == <<data, model, fwd, prev>>
cellVars == <<pc, epoch, grad, loss, pred, correct, acc>>
vars == <<layer, cx, cedge, res, data, model, fwd, prev,
          pc, epoch, grad, loss, pred, correct, acc>>

ConvIdle == layer = NoResult /\ cx = <<>> /\ cedge = <<>> /\ res = NoResult
CellIdle ==
    /\ pc = "idle" /\ epoch = 0 /\ grad = <<>> /\ loss = NoResult
    /\ pred = <<>> /\ correct = 0 /\ acc = NoResult
NetIdle == data = NoResult /\ model = NoResult /\ fwd = NoResult /\ prev = NoResult

\* ---------------------------------------------------- one GraphConvolution
ConvInit ==
    /\ \E g \in ConvGraphs :
         /\ cedge = g[2]
         /\ \E F \in 1..MaxF : cx \in FeatureMatrices(g[1], F)
    /\ layer \in Layers
    /\ res = NoResult
    /\ NetIdle /\ CellIdle

\* layer(x, edge_index)
CallForward ==
    /\ res = NoResult
    /\ res' = Forward(layer, ToScalars(cx), cedge)
    /\ cedge' = res'.caller_edge_index
    /\ UNCHANGED <<layer, cx>>
    /\ UNCHANGED <<netVars, cellVars>>

ConvNext == CallForward

ConvSpec == ConvInit /\ [][ConvNext]_vars

\* ------------------------------------------------------------------ one Net
NetInit ==
    /\ \E g \in NetGraphs :
         /\ \E xm \in FeatureMatrices(g[1], MaxF) :
              data = Dataset(xm, g[2], [i \in 1..g[1] |-> 0],
                             [train |-> [i \in 1..g[1] |-> TRUE], test |-> [i \in 1..g[1] |-> FALSE]])
    /\ model \in ParamSpace(MaxF)
    /\ fwd = NoResult /\ prev = NoResult
    /\ ConvIdle /\ CellIdle

\* model.train()
ModelTrain ==
    /\ ~model.training
    /\ model' = [model EXCEPT !.training = TRUE]
    /\ UNCHANGED <<data, fwd, prev, convVars, cellVars>>

\* model.eval()
ModelEval ==
    /\ model.training
    /\ model' = [model EXCEPT !.training = FALSE]
    /\ UNCHANGED <<data, fwd, prev, convVars, cellVars>>

\* model(data), a first and a second time, whatever the random source yields
CallNet ==
    /\ prev = NoResult
    /\ \E mask \in Masks(Len(data.x)) :
         fwd' = NetForward(model, data, mask)
    /\ prev' = fwd
    /\ data' = fwd'.data
    /\ UNCHANGED <<model, convVars, cellVars>>

NetNext == ModelTrain \/ ModelEval \/ CallNet

NetSpec == NetInit /\ [][NetNext]_vars

\* ------------------------------------------- the train and evaluate cells
\* model = Net(nfeat, nhid, nclass, dropout); data = dataset[0]; optimizer = Adam(...)
Init ==
    /\ \E g \in ScriptGraphs :
         \E xm \in FeatureMatrices(g[1], MaxF) :
           \E y \in Labels(g[1]) :
             \E split \in Splits(g[1]) :
               data = Dataset(xm, g[2], y, split)
    /\ model \in ParamSpace(MaxF)
    /\ fwd = NoResult /\ prev = NoResult
    /\ pc = "train" /\ epoch = 0 /\ grad = <<>> /\ loss = NoResult
    /\ pred = <<>> /\ correct = 0 /\ acc = NoResult
    /\ ConvIdle

\* model.train()
SetTrain ==
    /\ pc = "train"
    /\ model' = [model EXCEPT !.training = TRUE]
    /\ pc' = "for"
    /\ UNCHANGED <<data, fwd, prev, epoch, grad, loss, pred, correct, acc, convVars>>

\* for epoch in range(200): the next epoch, or the end of the cell
LoopHead ==
    /\ pc = "for"
    /\ pc' = IF epoch < MaxEpoch THEN "zero_grad" ELSE "eval"
    /\ UNCHANGED <<data, model, fwd, prev, epoch, grad, loss, pred, correct, acc, convVars>>

\* optimizer.zero_grad()
ZeroGrad ==
    /\ pc = "zero_grad"
    /\ grad' = <<>>
    /\ pc' = "forward"
    /\ UNCHANGED <<data, model, fwd, prev, epoch, loss, pred, correct, acc, convVars>>

\* out = model(data)
TrainForward ==
    /\ pc = "forward"
    /\ \E mask \in Masks(Len(data.x)) :
         fwd' = NetForward(model, data, mask)
    /\ data' = fwd'.data
    /\ pc' = IF fwd'.status = "ok" THEN "loss" ELSE "error"
    /\ UNCHANGED <<model, prev, epoch, grad, loss, pred, correct, acc, convVars>>

\* loss = F.nll_loss(out[data.train_mask], data.y[data.train_mask])
Loss ==
    /\ pc = "loss"
    /\ loss' = NllLoss(Select(fwd.out, data.train_mask, 1), Select(data.y, data.train_mask, 1))
    /\ pc' = "backward"
    /\ UNCHANGED <<data, model, fwd, prev, epoch, grad, pred, correct, acc, convVars>>

\* loss.backward(): the gradient of loss is added to the parameters' gradients
Backward ==
    /\ pc = "backward"
    /\ grad' = Append(grad, loss)
    /\ pc' = "step"
    /\ UNCHANGED <<data, model, fwd, prev, epoch, loss, pred, correct, acc, convVars>>

\* optimizer.step(): Adam moves the parameters of both layers
Step ==
    /\ pc = "step"
    /\ \E m \in ParamSpace(Len(data.x[1])) :
         model' = [model EXCEPT !.conv1 = m.conv1, !.conv2 = m.conv2]
    /\ epoch' = epoch + 1
    /\ pc' = "for"
    /\ UNCHANGED <<data, fwd, prev, grad, loss, pred, correct, acc, convVars>>

\* an evaluation cell that does not leave training mode
SetEvalSkipped ==
    /\ pc = "eval"
    /\ pc' = "predict"
    /\ UNCHANGED <<data, model, fwd, prev, epoch, grad, loss, pred, correct, acc, convVars>>

\* model.eval()
SetEval ==
    /\ pc = "eval"
    /\ model' = [model EXCEPT !.training = FALSE]
    /\ pc' = "predict"
    /\ UNCHANGED <<data, fwd, prev, epoch, grad, loss, pred, correct, acc, convVars>>

\* _, pred = model(data).max(dim=1)
Predict ==
    /\ pc = "predict"
    /\ \E mask \in Masks(Len(data.x)) :
         fwd' = NetForward(model, data, mask)
    /\ data' = fwd'.data
    /\ IF fwd'.status = "ok"
       THEN pred' \in ArgMax(fwd'.out) /\ pc' = "correct"
       ELSE pred' = pred /\ pc' = "error"
    /\ UNCHANGED <<model, prev, epoch, grad, loss, correct, acc, convVars>>

\* correct = float(pred[data.test_mask].eq(data.y[data.test_mask]).sum().item())
CountCorrect ==
    /\ pc = "correct"
    /\ correct' = Correct(pred, data.y, data.test_mask)
    /\ pc' = "acc"
    /\ UNCHANGED <<data, model, fwd, prev, epoch, grad, loss, pred, acc, convVars>>

\* acc = correct / data.test_mask.sum().item(): a float division, which raises
\* ZeroDivisionError on an empty test mask
Accuracy ==
    /\ pc = "acc"
    /\ IF MaskSum(data.test_mask) = 0
       THEN acc' = acc /\ pc' = "error"
       ELSE acc' = [num |-> correct, den |-> MaskSum(data.test_mask)] /\ pc' = "print"
    /\ UNCHANGED <<data, model, fwd, prev, epoch, grad, loss, pred, correct, convVars>>

\* print('Accuracy: {:.4f}'.format(acc))
PrintAcc ==
    /\ pc = "print"
    /\ pc' = "done"
    /\ UNCHANGED <<data, model, fwd, prev, epoch, grad, loss, pred, correct, acc, convVars>>

Next ==
    \/ SetTrain \/ LoopHead \/ ZeroGrad \/ TrainForward \/ Loss \/ Backward \/ Step
    \/ SetEval \/ Predict \/ CountCorrect \/ Accuracy \/ PrintAcc

Spec == Init /\ [][Next]_vars

\* ============================================================== properties
NumNodes == Len(cx)
Called == res.status # "none"
Succeeded == res.status = "ok"

ValidIndices == \A e \in DOMAIN cedge : cedge[e][1] \in Nodes(NumNodes) /\ cedge[e][2] \in Nodes(NumNodes)
WidthMatches == Len(cx[1]) = layer.in_channels

\* edges of the augmented list into node i / out of node i
EdgesInto(i) == {e \in DOMAIN res.edge_index : res.edge_index[e][2] = i}
EdgesOutOf(i) == {e \in DOMAIN res.edge_index : res.edge_index[e][1] = i}

\* the sum over the augmented edges (j -> i) of 1/(sqrt(dg[i]) * sqrt(dg[j])) * X'[j][k]
NormalizedSum(dg, i, k) ==
    SSum(EdgesInto(i),
         [e \in DOMAIN res.edge_index |->
            SMul(SMul(InvSqrt(dg[i]), InvSqrt(dg[res.edge_index[e][1]])),
                 res.x[res.edge_index[e][1] + 1][k])])

InDegree == [i \in Nodes(NumNodes) |-> Cardinality(EdgesInto(i))]
OutDegree == [i \in Nodes(NumNodes) |-> Cardinality(EdgesOutOf(i))]

\* C1: a successful forward returns for each node i the sum, over the augmented
\* edges (j -> i) with multiplicity, of X'[j] / (sqrt(degree(i)) * sqrt(degree(j))),
\* degree being the number of augmented edges into the node; on the worked
\* example node 1 has degree 3.
C1_OutputIsNormalizedSum ==
    Succeeded =>
       /\ \A i \in Nodes(NumNodes) : \A k \in 1..layer.out_channels :
             res.out[i + 1][k] = NormalizedSum(InDegree, i, k)
       /\ (cedge = ExampleEdges => res.deg[2] = 3)

\* What forward computes instead: the same sum with the degree it uses, the
\* number of augmented edges out of the node.
OutputIsSumWithSourceDegree ==
    Succeeded =>
       \A i \in Nodes(NumNodes) : \A k \in 1..layer.out_channels :
          res.out[i + 1][k] = NormalizedSum(OutDegree, i, k)

\* C2: the degree forward normalizes with is, for every node, the number of
\* augmented edges whose target is the node.
C2_DegreeIsIncomingCount ==
    Succeeded => \A i \in Nodes(NumNodes) : res.deg[i + 1] = InDegree[i]

\* What forward computes instead: the number of augmented edges whose source is the node.
DegreeIsOutgoingCount ==
    Succeeded => \A i \in Nodes(NumNodes) : res.deg[i + 1] = OutDegree[i]

\* C3: on valid input forward succeeds, every node's degree is at least 1, and
\* every deg^(-1/2), coefficient and output entry is a finite number.
C3_DegreeAtLeastOne ==
    (Called /\ ValidIndices /\ WidthMatches) =>
       /\ Succeeded
       /\ Len(res.deg) = NumNodes
       /\ \A i \in 1..NumNodes : res.deg[i] >= 1 /\ IsFinite(DegInvSqrt(res.deg)[i])
       /\ \A e \in DOMAIN res.norm : IsFinite(res.norm[e])
       /\ \A i \in 1..NumNodes : \A k \in 1..layer.out_channels : IsFinite(res.out[i][k])

\* a forward on a graph with an isolated node and on the empty edge list
C3_Witness ==
    /\ Succeeded /\ NumNodes = 2
    /\ cedge = <<>>
    /\ \A i \in 1..NumNodes : res.deg[i] = 1

SelfLoopsAt(edge_index, i) == Cardinality({e \in DOMAIN edge_index : edge_index[e] = <<i, i>>})

\* C4: the augmented list is the original list, unchanged and in order, followed
\* by exactly one (i, i) per node: E + N edges, nothing deduplicated, so a node
\* with a self-loop already has one more self-loop edge and a degree above it.
C4_OneSelfLoopPerNode ==
    Succeeded =>
       /\ Len(res.edge_index) = Len(cedge) + NumNodes
       /\ SubSeq(res.edge_index, 1, Len(cedge)) = cedge
       /\ \A i \in Nodes(NumNodes) :
             /\ res.edge_index[Len(cedge) + i + 1] = <<i, i>>
             /\ SelfLoopsAt(res.edge_index, i) = SelfLoopsAt(cedge, i) + 1
             /\ res.deg[i + 1] >= SelfLoopsAt(cedge, i) + 1
             /\ Cardinality({e \in EdgesInto(i) : res.edge_index[e][1] = i}) = SelfLoopsAt(cedge, i) + 1

\* a forward on an edge list that holds the same self-loop twice
C4_Witness ==
    /\ Succeeded
    /\ cedge = <<<<1, 1>>, <<1, 1>>>>
    /\ SelfLoopsAt(res.edge_index, 1) = 3
    /\ res.deg[2] = 3

\* normalization and aggregation of the raw features, then the layer's map
AggregateThenTransform ==
    Linear(layer, Propagate(res.edge_index, NumNodes, ToScalars(cx), res.norm).out).y

\* C5 as stated: the layer's affine map (weight and bias) commutes with the
\* normalization / aggregation step.
C5_AffineCommutes == Succeeded => res.out = AggregateThenTransform

\* C5 amended: the map of a layer built with bias = False (the weight matrix
\* alone) commutes with the normalization / aggregation step.
C5_LinearCommutes == (Succeeded /\ ~layer.has_bias) => res.out = AggregateThenTransform

\* a bias-free layer with two inputs and two outputs on the worked example
C5_Witness ==
    /\ Succeeded /\ ~layer.has_bias
    /\ cedge = ExampleEdges
    /\ layer.in_channels = 2 /\ layer.out_channels = 2
    /\ res.out = AggregateThenTransform

\* C8: forward on an edge list with an index outside [0, N), or on a feature
\* matrix whose width is not in_channels, ends in an error and returns nothing.
C8_FailsOnBadInput ==
    (Called /\ (~ValidIndices \/ ~WidthMatches)) => (res.status = "error" /\ res.out = <<>>)

\* a negative target index, which indexing accepts, stopped by the aggregation
C8_Witness ==
    /\ res.status = "error" /\ res.error = "propagate"
    /\ cedge = <<<<0, -1>>>>
    /\ WidthMatches

\* the passes made so far
Passes == {fwd, prev} \ {NoResult}

\* C6: every evaluation-mode pass over the same weights and data gives the same
\* output whatever mask the random source yields, and the modes differ in the
\* dropout step alone: conv1 and relu give the same in both modes, dropout is
\* the identity in evaluation mode, and equal dropout outputs give equal outputs.
C6_EvalDeterministic ==
    \A p \in Passes : \A q \in Passes :
       /\ p.h1 = q.h1 /\ p.h2 = q.h2
       /\ (~p.training => p.h3 = p.h2)
       /\ ((~p.training /\ ~q.training) => p.out = q.out)
       /\ (p.h3 = q.h3 => p.out = q.out)

\* two evaluation-mode passes, on activations that a training-mode dropout would change
C6_Witness ==
    /\ prev # NoResult /\ ~prev.training
    /\ ~fwd.training /\ fwd.status = "ok"
    /\ \E i \in DOMAIN fwd.h2 : \E k \in DOMAIN fwd.h2[i] : Sign(fwd.h2[i][k]) > 0

\* C7: every forward pass leaves the dataset as it was: the edge list the pass
\* received is still the stored one, the feature matrix is the stored one, both
\* layers received that same list, and each augmented it to E + N edges.
C7_GraphUnchanged ==
    \A p \in Passes :
       /\ p.in1 = data.edge_index /\ p.xin = data.x
       /\ p.data = data
       /\ (p.status = "ok" =>
             /\ p.in2 = p.in1
             /\ Len(p.aug1) = Len(p.in1) + Len(data.x)
             /\ Len(p.aug2) = Len(p.in1) + Len(data.x))

\* two passes over a two-node graph with two edges (E = 2, N = 2)
C7_Witness ==
    /\ prev # NoResult /\ prev.status = "ok" /\ fwd.status = "ok"
    /\ Len(data.edge_index) = 2 /\ Len(data.x) = 2
    /\ Len(fwd.aug1) = 4 /\ Len(fwd.aug2) = 4

TestNodes == {i \in DOMAIN data.test_mask : data.test_mask[i]}

\* C9: the reported accuracy is the number of test-mask nodes whose predicted
\* class is the label, over the number of test-mask nodes; it lies in [0, 1]
\* and is exactly 1 when the mask is all-true and every prediction is the label.
C9_Accuracy ==
    pc \in {"print", "done"} =>
       /\ acc.den = Cardinality(TestNodes) /\ acc.den > 0
       /\ acc.num = Cardinality({i \in TestNodes : pred[i] = data.y[i]})
       /\ 0 <= acc.num /\ acc.num <= acc.den
       /\ ((TestNodes = DOMAIN data.y /\ pred = data.y) => acc.num = acc.den)

\* all nodes tested, all predicted right, not all of one class: accuracy 1
C9_Witness ==
    /\ pc = "done"
    /\ TestNodes = DOMAIN data.y /\ pred = data.y
    /\ \E i \in DOMAIN pred : \E j \in DOMAIN pred : pred[i] # pred[j]
    /\ acc.num = acc.den

TrainNodes == {i \in DOMAIN data.train_mask : data.train_mask[i]}

\* where the cells stand when each statement is about to run
C10_Order ==
    /\ (pc = "forward" => model.training /\ grad = <<>> /\ epoch < MaxEpoch)
    /\ (pc = "loss" => model.training /\ fwd.training /\ fwd.status = "ok" /\ grad = <<>>)
    /\ (pc \in {"backward", "step"} =>
          /\ fwd.training
          /\ Len(loss.picked) = Cardinality(TrainNodes)
          /\ \A n \in DOMAIN loss.picked :
                \E i \in TrainNodes : loss.picked[n] = fwd.out[i][data.y[i] + 1])
    /\ (pc = "backward" => grad = <<>>)
    /\ (pc = "step" => grad = <<loss>> /\ epoch < MaxEpoch)
    /\ (pc = "predict" => ~model.training /\ epoch = MaxEpoch)
    /\ (pc \in {"correct", "acc", "print", "done"} =>
          ~model.training /\ ~fwd.training /\ epoch = MaxEpoch)

\* the layer weights change in an optimizer step only, one epoch at a time
C10_WeightsByStep ==
    /\ (model'.conv1 # model.conv1 \/ model'.conv2 # model.conv2) => pc = "step"
    /\ epoch' # epoch => (pc = "step" /\ epoch' = epoch + 1)

\* the number of statements still to run, at most: 6 per epoch left, then the
\* evaluation cell
StatementsLeft ==
    CASE pc = "train"     -> 6 * MaxEpoch + 7
      [] pc = "for"       -> 6 * (MaxEpoch - epoch) + 6
      [] pc = "zero_grad" -> 6 * (MaxEpoch - epoch) + 5
      [] pc = "forward"   -> 6 * (MaxEpoch - epoch) + 4
      [] pc = "loss"      -> 6 * (MaxEpoch - epoch) + 3
      [] pc = "backward"  -> 6 * (MaxEpoch - epoch) + 2
      [] pc = "step"      -> 6 * (MaxEpoch - epoch) + 1
      [] pc = "eval"      -> 5
      [] pc = "predict"   -> 4
      [] pc = "correct"   -> 3
      [] pc = "acc"       -> 2
      [] pc = "print"     -> 1
      [] OTHER            -> 0

\* every statement run leaves fewer statements to run: the cells terminate
C10_Progress == StatementsLeft >= 0 /\ StatementsLeft' < StatementsLeft

\* C10: the cells run in order and end: every epoch does zero_grad, a
\* training-mode forward, the loss over the training-mask nodes, backward and
\* the optimizer step; only the optimizer step changes weights; the evaluation
\* forward runs after the last step, in evaluation mode; each statement run
\* brings the end nearer.
C10_Sequential ==
    /\ []C10_Order
    /\ [][C10_WeightsByStep /\ C10_Progress]_vars

\* the run ended after all epochs with an accuracy
C10_Witness == pc = "done" /\ epoch = MaxEpoch /\ acc.den > 0 /\ ~model.training
====
